---- MODULE Spec2Model ----
(***************************************************************************)
(* State-switch shell of the game: engine.core.Core.  The Core owns at    *)
(* most one World, one GuiState, a lazily built InGameState, and routes   *)
(* the window's callbacks to the state that is currently active.          *)
(***************************************************************************)
EXTENDS Integers, Sequences, FiniteSets, TLC

VARIABLES
    world,          \* Core.world: reference into worlds, None when absent
    gui_state,      \* Core.gui_state: the GuiState object
    ingame_state,   \* Core.ingame_state: reference into ingames, None when absent
    current_state,  \* Core.current_state: reference to the active GameState
    worlds,         \* every World constructed so far, in construction order
    ingames,        \* every InGameState constructed so far, in construction order
    op,             \* name of the Core operation that ran last
    args,           \* its arguments
    handler,        \* what the state's handler did while the call was forwarded
    result,         \* how it ended: "ok" or the name of the exception raised
    calls,          \* calls it made on the window, the states and the World
    entry_state,    \* current_state when the operation was entered
    setup_called,   \* history: setup() has been called
    shown,          \* history: show_gui() has been called
    start_calls,    \* history: number of start_game() calls (saturating)
    last_switch,    \* history: the latest of show_gui / start_game
    running,        \* run() has entered the event loop (arcade.run())
    aborted         \* history: a start_game() call was aborted by an exception

vars == << world, gui_state, ingame_state, current_state, worlds, ingames,
           op, args, handler, result, calls, entry_state,
           setup_called, shown, start_calls, last_switch, running,
           aborted >>

----------------------------------------------------------------------------
\* Bounds of the model
MaxCoord == 1
MaxStartCalls == 2
MaxTicks == 2

\* Program constants
SCREEN_WIDTH == 1000
SCREEN_HEIGHT == 650

\* Input domains
Coords == 0..MaxCoord
Deltas == {-1}
Buttons == {1}
Heights == {7}
Symbols == {97}
Modifiers == {0, 1}
DeltaTimes == {1, 2}
Guis == {"initial_gui", "menu"}
RegionNames == {"town", "cave"}
Locations == {"door"}
SpriteNames == {"npc"}
SpecNames == {"slime", "ghost"}
PlayerStates == {"initial", "hurt"}
KeyPointNames == {"None", "spawn"}

\* The constructor's arguments
initial_gui == "initial_gui"
ingame_gui == "None"
initial_player_state == "initial"
\* game_spec.sprites: the sprite specs the game spec knows, by name
sprites == [n \in {"slime"} |-> <<"SpriteSpec", n>>]

None == 0
GameNotInitializedError == "GameNotInitializedError"
KeyError == "KeyError"
AttributeError == "AttributeError"

\* References to the objects current_state can be bound to
NoState == [kind |-> "None", ref |-> 0]
GuiStateRef == [kind |-> "gui_state", ref |-> 0]
InGameStateRef(i) == [kind |-> "ingame_state", ref |-> i]
WindowRef == [kind |-> "window", ref |-> 0]
ArcadeRef == [kind |-> "arcade", ref |-> 0]
WorldRef(w) == [kind |-> "world", ref |-> w]

Min(a, b) == IF a < b THEN a ELSE b

----------------------------------------------------------------------------
\* The objects Core constructs

\* gui_game_state.GuiState(self, self.initial_gui)
GuiState(gui) == [gui |-> gui]

\* world.World(self, self._spec, self.initial_player_state)
World(player_state) ==
    [region |-> "None", start_location |-> "None",
     player_state |-> player_state, sprites |-> {}, ticks |-> 0]

\* ingame_state.InGameState(self.world, (self.width, self.height), self.ingame_gui)
InGameState(w, size, gui) ==
    [world |-> w, size |-> size, gui |-> gui, setups |-> 0]

\* GuiState.setup: back to the configuration it was constructed with
GuiState_setup(gs) == [gs EXCEPT !.gui = initial_gui]

\* GuiState.set_gui: display another GUI
GuiState_set_gui(gs, gui) == [gs EXCEPT !.gui = gui]

\* InGameState.setup
InGameState_setup(st) == [st EXCEPT !.setups = @ + 1]

\* World.load_region
World_load_region(w, name, start_location) ==
    [w EXCEPT !.region = name, !.start_location = start_location]

\* World.create_sprite
World_create_sprite(w, _spec, name, start_location, script) ==
    [w EXCEPT !.sprites = @ \cup {<<name, _spec>>}]

\* World.player_state (setter)
World_set_player_state(w, value) == [w EXCEPT !.player_state = value]

\* World.on_update: the model advances by the time that passed
World_on_update(w, delta_time) == [w EXCEPT !.ticks = @ + delta_time]

----------------------------------------------------------------------------
\* The Core as one value, so that a handler can call back into it
Self ==
    [world |-> world, gui_state |-> gui_state, ingame_state |-> ingame_state,
     current_state |-> current_state, worlds |-> worlds, ingames |-> ingames,
     result |-> "ok", calls |-> <<>>,
     setup_called |-> setup_called, shown |-> shown,
     start_calls |-> start_calls, last_switch |-> last_switch,
     running |-> running, aborted |-> aborted]

Raise(self, error) == [self EXCEPT !.result = error]

Call(self, obj, part, method, a) ==
    [self EXCEPT !.calls = Append(@, [obj |-> obj, part |-> part,
                                       method |-> method, args |-> a])]

\* self.current_state.<part>.<method>(*a)
Forward(self, part, method, a) ==
    Call(self, self.current_state, part, method, a)

----------------------------------------------------------------------------
\* A setup() that "resets the game state" by dropping the World as well
setup_drops_world(self) ==
    [Call(self, GuiStateRef, "state", "setup", <<>>)
        EXCEPT !.gui_state = GuiState_setup(@),
               !.world = None,
               !.setup_called = TRUE]

\* A setup() that "resets the game state" by clearing current_state as well
setup_clears_current_state(self) ==
    [Call(self, GuiStateRef, "state", "setup", <<>>)
        EXCEPT !.gui_state = GuiState_setup(@),
               !.current_state = NoState,
               !.setup_called = TRUE]

\* A setup() that also makes the GUI state the active state
setup_switches_to_gui(self) ==
    [Call(self, GuiStateRef, "state", "setup", <<>>)
        EXCEPT !.gui_state = GuiState_setup(@),
               !.current_state = GuiStateRef,
               !.setup_called = TRUE]

\* Core.setup
setup(self) ==
    [Call(self, GuiStateRef, "state", "setup", <<>>)
        EXCEPT !.gui_state = GuiState_setup(@),
               !.setup_called = TRUE]

\* A start_game() without the "if self.world is None" test
start_game_new_world(self) ==
    LET s1 == [self EXCEPT
                 !.worlds = Append(@, World(initial_player_state)),
                 !.world = Len(self.worlds) + 1]
        s2 == IF s1.ingame_state = None
              THEN [s1 EXCEPT
                      !.ingames = Append(@,
                          InGameState_setup(
                              InGameState(s1.world,
                                          <<SCREEN_WIDTH, SCREEN_HEIGHT>>,
                                          ingame_gui))),
                      !.ingame_state = Len(s1.ingames) + 1]
              ELSE s1
    IN  [s2 EXCEPT !.current_state = InGameStateRef(s2.ingame_state),
                   !.start_calls = Min(@ + 1, MaxStartCalls),
                   !.last_switch = "start_game"]

\* A start_game() that builds the InGameState without building the World
start_game_no_world(self) ==
    LET s2 == IF self.ingame_state = None
              THEN [self EXCEPT
                      !.ingames = Append(@,
                          InGameState_setup(
                              InGameState(self.world,
                                          <<SCREEN_WIDTH, SCREEN_HEIGHT>>,
                                          ingame_gui))),
                      !.ingame_state = Len(self.ingames) + 1]
              ELSE self
    IN  [s2 EXCEPT !.current_state = InGameStateRef(s2.ingame_state),
                   !.start_calls = Min(@ + 1, MaxStartCalls),
                   !.last_switch = "start_game"]

\* A start_game() with self.ingame_state.setup() outside the "if"
start_game_setup_again(self) ==
    LET s1 == IF self.world = None
              THEN [self EXCEPT
                      !.worlds = Append(@, World(initial_player_state)),
                      !.world = Len(self.worlds) + 1]
              ELSE self
        s2 == IF s1.ingame_state = None
              THEN [s1 EXCEPT
                      !.ingames = Append(@,
                          InGameState(s1.world,
                                      <<SCREEN_WIDTH, SCREEN_HEIGHT>>,
                                      ingame_gui)),
                      !.ingame_state = Len(s1.ingames) + 1]
              ELSE s1
        s3 == [s2 EXCEPT !.ingames[s2.ingame_state] = InGameState_setup(@)]
    IN  [s3 EXCEPT !.current_state = InGameStateRef(s3.ingame_state),
                   !.start_calls = Min(@ + 1, MaxStartCalls),
                   !.last_switch = "start_game"]

\* A start_game() without the "if self.ingame_state is None" test
start_game_new_ingame(self) ==
    LET s1 == IF self.world = None
              THEN [self EXCEPT
                      !.worlds = Append(@, World(initial_player_state)),
                      !.world = Len(self.worlds) + 1]
              ELSE self
        s2 == [s1 EXCEPT
                 !.ingames = Append(@,
                     InGameState_setup(
                         InGameState(s1.world,
                                     <<SCREEN_WIDTH, SCREEN_HEIGHT>>,
                                     ingame_gui))),
                 !.ingame_state = Len(s1.ingames) + 1]
    IN  [s2 EXCEPT !.current_state = InGameStateRef(s2.ingame_state),
                   !.start_calls = Min(@ + 1, MaxStartCalls),
                   !.last_switch = "start_game"]

\* Core.start_game
start_game(self) ==
    LET s1 == IF self.world = None
              THEN [self EXCEPT
                      !.worlds = Append(@, World(initial_player_state)),
                      !.world = Len(self.worlds) + 1]
              ELSE self
        s2 == IF s1.ingame_state = None
              THEN [s1 EXCEPT
                      !.ingames = Append(@,
                          InGameState_setup(
                              InGameState(s1.world,
                                          <<SCREEN_WIDTH, SCREEN_HEIGHT>>,
                                          ingame_gui))),
                      !.ingame_state = Len(s1.ingames) + 1]
              ELSE s1
    IN  [s2 EXCEPT !.current_state = InGameStateRef(s2.ingame_state),
                   !.start_calls = Min(@ + 1, MaxStartCalls),
                   !.last_switch = "start_game"]

\* The calls of start_game() that can raise: the two constructors and
\* InGameState.setup()
Faults == {"World", "InGameState", "InGameState.setup"}

\* The exception leaves start_game() at the call that raised it
Abort(self) ==
    [Raise(self, "Exception") EXCEPT !.aborted = TRUE]

\* Core.start_game when the call named by `fault` raises (if it is reached)
start_game_raising(self, fault) ==
    LET s0 == [self EXCEPT !.start_calls = Min(@ + 1, MaxStartCalls)]
        s1 == IF s0.world = None
              THEN [s0 EXCEPT
                      !.worlds = Append(@, World(initial_player_state)),
                      !.world = Len(s0.worlds) + 1]
              ELSE s0
        s2 == [s1 EXCEPT
                 !.ingames = Append(@,
                     InGameState(s1.world,
                                 <<SCREEN_WIDTH, SCREEN_HEIGHT>>,
                                 ingame_gui)),
                 !.ingame_state = Len(s1.ingames) + 1]
    IN  CASE fault = "World" /\ self.world = None -> Abort(s0)
          [] fault = "InGameState" /\ self.ingame_state = None -> Abort(s1)
          [] fault = "InGameState.setup" /\ self.ingame_state = None -> Abort(s2)
          [] OTHER -> start_game(self)

\* A show_gui() that sets the GUI but does not switch the active state
show_gui_no_switch(self, gui) ==
    [Call(self, GuiStateRef, "state", "set_gui", <<gui>>)
        EXCEPT !.gui_state = GuiState_set_gui(@, gui),
               !.shown = TRUE,
               !.last_switch = "show_gui"]

\* Core.show_gui
show_gui(self, gui) ==
    [Call(self, GuiStateRef, "state", "set_gui", <<gui>>)
        EXCEPT !.gui_state = GuiState_set_gui(@, gui),
               !.current_state = GuiStateRef,
               !.shown = TRUE,
               !.last_switch = "show_gui"]

\* Core.change_region
change_region(self, name, start_location) ==
    IF self.world = None
    THEN Raise(self, GameNotInitializedError)
    ELSE LET s1 == Call(self, WorldRef(self.world), "world", "load_region",
                        <<name, start_location>>)
         IN  [s1 EXCEPT !.worlds[self.world] =
                  World_load_region(@, name, start_location)]

\* A create_sprite() that looks the sprite spec up before testing self.world
create_sprite_lookup_first(self, spec_name, name, start_location, script) ==
    IF spec_name \notin DOMAIN sprites
    THEN Raise(self, KeyError)
    ELSE IF self.world = None
    THEN Raise(self, GameNotInitializedError)
    ELSE LET _spec == sprites[spec_name]
             s1 == Call(self, WorldRef(self.world), "world", "create_sprite",
                        <<_spec, name, start_location, script>>)
         IN  [s1 EXCEPT !.worlds[self.world] =
                  World_create_sprite(@, _spec, name, start_location, script)]

\* Core.create_sprite
create_sprite(self, spec_name, name, start_location, script) ==
    IF self.world = None
    THEN Raise(self, GameNotInitializedError)
    ELSE IF spec_name \notin DOMAIN sprites
    THEN Raise(self, KeyError)
    ELSE LET _spec == sprites[spec_name]
             s1 == Call(self, WorldRef(self.world), "world", "create_sprite",
                        <<_spec, name, start_location, script>>)
         IN  [s1 EXCEPT !.worlds[self.world] =
                  World_create_sprite(@, _spec, name, start_location, script)]

\* A get_key_points() without the test of self.world
get_key_points_unchecked(self, name) ==
    IF self.world = None
    THEN Raise(self, AttributeError)
    ELSE Call(self, WorldRef(self.world), "world", "get_key_points", <<name>>)

\* Core.get_key_points
get_key_points(self, name) ==
    IF self.world = None
    THEN Raise(self, GameNotInitializedError)
    ELSE Call(self, WorldRef(self.world), "world", "get_key_points", <<name>>)

\* Core.player_state (getter)
get_player_state(self) ==
    IF self.world = None
    THEN Raise(self, GameNotInitializedError)
    ELSE Call(self, WorldRef(self.world), "world", "player_state", <<>>)

\* Core.player_state (setter)
set_player_state(self, value) ==
    IF self.world = None
    THEN Raise(self, GameNotInitializedError)
    ELSE LET s1 == Call(self, WorldRef(self.world), "world", "player_state",
                        <<value>>)
         IN  [s1 EXCEPT !.worlds[self.world] =
                  World_set_player_state(@, value)]

\* A run() that enters the event loop without showing the initial GUI
run_without_show_gui(self) ==
    [Call(setup(self), ArcadeRef, "arcade", "run", <<>>)
        EXCEPT !.running = TRUE]

\* Core.run, up to the point where arcade.run() takes over the thread
run(self) ==
    [Call(show_gui(setup(self), initial_gui), ArcadeRef, "arcade", "run", <<>>)
        EXCEPT !.running = TRUE]

----------------------------------------------------------------------------
\* What a state's handler may do while a callback is forwarded to it: nothing
\* that touches the Core, or a call back into it through the game API
\* (game.gui.start.start_game calls api.start_game()).
Handlers ==
    {<<"none">>, <<"start_game">>, <<"show_gui", "menu">>}

RunHandler(self, h) ==
    CASE h[1] = "none" -> self
      [] h[1] = "start_game" -> start_game(self)
      [] h[1] = "show_gui" -> show_gui(self, h[2])

\* An on_draw() that tests self.world instead of self.current_state
on_draw_tests_world(self) ==
    IF self.world = None
    THEN Raise(self, GameNotInitializedError)
    ELSE Forward(Call(self, WindowRef, "window", "clear", <<>>),
                 "view", "on_draw", <<>>)

\* An on_draw() that clears the window before it tests self.current_state
on_draw_clear_first(self) ==
    LET s1 == Call(self, WindowRef, "window", "clear", <<>>)
    IN  IF self.current_state = NoState
        THEN Raise(s1, GameNotInitializedError)
        ELSE Forward(s1, "view", "on_draw", <<>>)

\* Core.on_draw
on_draw(self) ==
    IF self.current_state = NoState
    THEN Raise(self, GameNotInitializedError)
    ELSE Forward(Call(self, WindowRef, "window", "clear", <<>>),
                 "view", "on_draw", <<>>)

\* Core.on_key_press
on_key_press(self, symbol, modifiers, h) ==
    IF self.current_state = NoState
    THEN Raise(self, GameNotInitializedError)
    ELSE RunHandler(Forward(self, "controller", "on_key_press",
                            <<symbol, modifiers>>), h)

\* An on_key_release() pasted from on_key_press with the callee left as it was
on_key_release_as_press(self, symbol, modifiers, h) ==
    IF self.current_state = NoState
    THEN Raise(self, GameNotInitializedError)
    ELSE RunHandler(Forward(self, "controller", "on_key_press",
                            <<symbol, modifiers>>), h)

\* Core.on_key_release
on_key_release(self, symbol, modifiers, h) ==
    IF self.current_state = NoState
    THEN Raise(self, GameNotInitializedError)
    ELSE RunHandler(Forward(self, "controller", "on_key_release",
                            <<symbol, modifiers>>), h)

\* Core.on_mouse_motion
on_mouse_motion(self, x, y, dx, dy, h) ==
    IF self.current_state = NoState
    THEN Raise(self, GameNotInitializedError)
    ELSE RunHandler(Forward(self, "controller", "on_mouse_motion",
                            <<x, y, dx, dy>>), h)

\* An on_mouse_release() that delivers the event again when the handler
\* switched the active state
on_mouse_release_redispatch(self, x, y, button, modifiers, h) ==
    IF self.current_state = NoState
    THEN Raise(self, GameNotInitializedError)
    ELSE LET s1 == RunHandler(Forward(self, "controller", "on_mouse_release",
                                      <<x, y, button, modifiers>>), h)
         IN  IF s1.current_state # self.current_state
             THEN Forward(s1, "controller", "on_mouse_release",
                          <<x, y, button, modifiers>>)
             ELSE s1

\* Core.on_mouse_release
on_mouse_release(self, x, y, button, modifiers, h) ==
    IF self.current_state = NoState
    THEN Raise(self, GameNotInitializedError)
    ELSE RunHandler(Forward(self, "controller", "on_mouse_release",
                            <<x, y, button, modifiers>>), h)

\* GameState.on_update of the state `target`: the in-game state updates its
\* World, the GUI state leaves the World alone
GameState_on_update(self, target, delta_time) ==
    IF target.kind = "ingame_state"
    THEN [self EXCEPT !.worlds[self.ingames[target.ref].world] =
              World_on_update(@, delta_time)]
    ELSE self

\* An on_update() without the test of self.current_state
on_update_unchecked(self, delta_time, h) ==
    IF self.current_state = NoState
    THEN Raise(self, AttributeError)
    ELSE RunHandler(
             GameState_on_update(
                 Forward(self, "state", "on_update", <<delta_time>>),
                 self.current_state, delta_time), h)

\* An on_update() that updates the in-game state whichever state is active
on_update_to_ingame(self, delta_time, h) ==
    IF self.current_state = NoState
    THEN Raise(self, GameNotInitializedError)
    ELSE LET target == IF self.ingame_state # None
                       THEN InGameStateRef(self.ingame_state)
                       ELSE self.current_state
         IN  RunHandler(
                 GameState_on_update(
                     Call(self, target, "state", "on_update", <<delta_time>>),
                     target, delta_time), h)

\* Core.on_update
on_update(self, delta_time, h) ==
    IF self.current_state = NoState
    THEN Raise(self, GameNotInitializedError)
    ELSE RunHandler(
             GameState_on_update(
                 Forward(self, "state", "on_update", <<delta_time>>),
                 self.current_state, delta_time), h)

----------------------------------------------------------------------------
\* Core.__init__
Init ==
    /\ world = None
    /\ gui_state = GuiState(initial_gui)
    /\ ingame_state = None
    /\ current_state = NoState
    /\ worlds = <<>>
    /\ ingames = <<>>
    /\ op = "__init__"
    /\ args = <<>>
    /\ handler = <<"none">>
    /\ result = "ok"
    /\ calls = <<>>
    /\ entry_state = NoState
    /\ setup_called = FALSE
    /\ shown = FALSE
    /\ start_calls = 0
    /\ last_switch = "none"
    /\ running = FALSE
    /\ aborted = FALSE

\* One call of a Core operation from outside: the operation runs to its end
\* (or to the exception it raises) before the next one is entered.
Return(name, a, h, self) ==
    /\ op' = name
    /\ args' = a
    /\ handler' = IF self.result = "ok" THEN h ELSE <<"none">>
    /\ entry_state' = current_state
    /\ result' = self.result
    /\ calls' = self.calls
    /\ world' = self.world
    /\ gui_state' = self.gui_state
    /\ ingame_state' = self.ingame_state
    /\ current_state' = self.current_state
    /\ worlds' = self.worlds
    /\ ingames' = self.ingames
    /\ setup_called' = self.setup_called
    /\ shown' = self.shown
    /\ start_calls' = self.start_calls
    /\ last_switch' = self.last_switch
    /\ running' = self.running
    /\ aborted' = self.aborted

\* arcade.run() does not return: once run() has entered it, the thread calls
\* the Core only through the window's callbacks (and what their handlers do)
Idle == ~running

Setup == Idle /\ Return("setup", <<>>, <<"none">>, setup(Self))

StartGame == Idle /\ Return("start_game", <<>>, <<"none">>, start_game(Self))

ShowGui ==
    \E g \in Guis :
        Idle /\ Return("show_gui", <<g>>, <<"none">>, show_gui(Self, g))

ChangeRegion ==
    \E name \in RegionNames, loc \in Locations :
        /\ Idle
        /\ Return("change_region", <<name, loc>>, <<"none">>,
                  change_region(Self, name, loc))

CreateSprite ==
    \E spec_name \in SpecNames, name \in SpriteNames, loc \in Locations :
        /\ Idle
        /\ Return("create_sprite", <<spec_name, name, loc, "None">>, <<"none">>,
                  create_sprite(Self, spec_name, name, loc, "None"))

GetKeyPoints ==
    \E name \in KeyPointNames :
        /\ Idle
        /\ Return("get_key_points", <<name>>, <<"none">>,
                  get_key_points(Self, name))

GetPlayerState ==
    /\ Idle
    /\ Return("player_state.get", <<>>, <<"none">>, get_player_state(Self))

SetPlayerState ==
    \E value \in PlayerStates :
        /\ Idle
        /\ Return("player_state.set", <<value>>, <<"none">>,
                  set_player_state(Self, value))

Run == Idle /\ Return("run", <<>>, <<"none">>, run(Self))

OnDraw == Return("on_draw", <<>>, <<"none">>, on_draw(Self))

OnKeyPress ==
    \E symbol \in Symbols, modifiers \in Modifiers, h \in Handlers :
        Return("on_key_press", <<symbol, modifiers>>, h,
               on_key_press(Self, symbol, modifiers, h))

OnKeyRelease ==
    \E symbol \in Symbols, modifiers \in Modifiers, h \in Handlers :
        Return("on_key_release", <<symbol, modifiers>>, h,
               on_key_release(Self, symbol, modifiers, h))

OnMouseMotion ==
    \E x \in Coords, y \in Heights, dx \in Deltas, dy \in Deltas, h \in Handlers :
        Return("on_mouse_motion", <<x, y, dx, dy>>, h,
               on_mouse_motion(Self, x, y, dx, dy, h))

OnMouseRelease ==
    \E x \in Coords, y \in Heights, button \in Buttons, modifiers \in Modifiers,
       h \in Handlers :
        Return("on_mouse_release", <<x, y, button, modifiers>>, h,
               on_mouse_release(Self, x, y, button, modifiers, h))

OnUpdate ==
    \E delta_time \in DeltaTimes, h \in Handlers :
        /\ \A w \in 1..Len(worlds) : worlds[w].ticks + delta_time <= MaxTicks
        /\ Return("on_update", <<delta_time>>, h, on_update(Self, delta_time, h))

Next ==
    \/ Setup
    \/ StartGame
    \/ ShowGui
    \/ ChangeRegion
    \/ CreateSprite
    \/ GetKeyPoints
    \/ GetPlayerState
    \/ SetPlayerState
    \/ Run
    \/ OnDraw
    \/ OnKeyPress
    \/ OnKeyRelease
    \/ OnMouseMotion
    \/ OnMouseRelease
    \/ OnUpdate

Spec == Init /\ [][Next]_vars

\* start_game() with one of its calls raising
StartGameRaises ==
    \E fault \in Faults :
        /\ Idle
        /\ fault = "World" => world = None
        /\ fault # "World" => ingame_state = None
        /\ Return("start_game", <<>>, <<"none">>,
                  start_game_raising(Self, fault))

NextFaults ==
    \/ Next
    \/ StartGameRaises

\* The Core with constructors and InGameState.setup() that may raise
SpecFaults == Init /\ [][NextFaults]_vars

WorldOps ==
    {"change_region", "create_sprite", "get_key_points",
     "player_state.get", "player_state.set"}

Callbacks ==
    {"on_draw", "on_key_press", "on_key_release", "on_mouse_motion",
     "on_mouse_release", "on_update"}

\* The calls the last operation made on a game state
Forwarded ==
    SelectSeq(calls, LAMBDA c : /\ c.obj.kind \in {"gui_state", "ingame_state"}
                                /\ c.method \in Callbacks)

----------------------------------------------------------------------------
\* C1: once start_game() has been called, however often and interleaved with
\* whatever else, exactly one World and exactly one InGameState have been
\* constructed, and ingame_state is bound to the World of the first call.
C1_OneWorldOneInGameState ==
    start_calls >= 1 =>
        /\ Len(worlds) = 1
        /\ Len(ingames) = 1
        /\ world = 1
        /\ ingame_state = 1
        /\ ingames[ingame_state].world = world

C1_Witness ==
    /\ op = "start_game"
    /\ start_calls >= 2
    /\ setup_called
    /\ shown
    /\ Len(worlds) = 1
    /\ Len(ingames) = 1

\* C2: as long as start_game() has not been called, every world-dependent
\* accessor fails with GameNotInitializedError and reaches nothing, whatever
\* its arguments; create_sprite does so for an unknown spec_name too.
C2_AccessorsFailBeforeStart ==
    (start_calls = 0 /\ op \in WorldOps) =>
        /\ result = GameNotInitializedError
        /\ calls = <<>>

C2_Witness ==
    /\ start_calls = 0
    /\ setup_called
    /\ shown
    /\ op = "create_sprite"
    /\ args[1] \notin DOMAIN sprites
    /\ result = GameNotInitializedError

\* C3: as long as neither show_gui() nor start_game() has been called, each of
\* the six callbacks fails with GameNotInitializedError and forwards nothing.
C3_CallbacksFailBeforeSwitch ==
    (~shown /\ start_calls = 0 /\ op \in Callbacks) =>
        /\ result = GameNotInitializedError
        /\ calls = <<>>

C3_Witness ==
    /\ setup_called
    /\ ~shown
    /\ start_calls = 0
    /\ op = "on_update"
    /\ result = GameNotInitializedError

\* C4: right after show_gui(g) the GUI state is active and displays g; right
\* after start_game() the in-game state is active and bound to the Core's one
\* World; the active state is the one the latest show_gui/start_game chose.
C4_SwitchSelectsState ==
    /\ op = "show_gui" =>
          /\ current_state = GuiStateRef
          /\ gui_state.gui = args[1]
    /\ handler[1] = "show_gui" =>
          /\ current_state = GuiStateRef
          /\ gui_state.gui = handler[2]
    /\ (op = "start_game" \/ handler[1] = "start_game") =>
          /\ ingame_state # None
          /\ current_state = InGameStateRef(ingame_state)
          /\ world # None
          /\ Len(worlds) = 1
          /\ ingames[ingame_state].world = world
    /\ last_switch = "none" => current_state = NoState
    /\ last_switch = "show_gui" => current_state = GuiStateRef
    /\ last_switch = "start_game" =>
          current_state = InGameStateRef(ingame_state)

C4_Witness ==
    /\ op = "show_gui"
    /\ args[1] = "menu"
    /\ ~setup_called
    /\ world # None
    /\ entry_state.kind = "ingame_state"
    /\ current_state = GuiStateRef

\* C5: whenever the in-game state is the active state, the World is present
\* and is the World that in-game state was constructed with.
C5_ActiveStateHasModel ==
    current_state.kind = "ingame_state" =>
        /\ world # None
        /\ world \in 1..Len(worlds)
        /\ current_state.ref = ingame_state
        /\ ingame_state \in 1..Len(ingames)
        /\ ingames[ingame_state].world = world

C5_Witness ==
    /\ current_state.kind = "ingame_state"
    /\ entry_state.kind = "ingame_state"
    /\ op = "on_update"
    /\ result = "ok"

\* C6: the World is absent before the first start_game() call, present after
\* it, and from then on no operation removes or replaces it, so that the
\* world-dependent accessors do not fail with GameNotInitializedError again.
C6_WorldCreatedOnceNeverDropped ==
    /\ [](start_calls = 0 => world = None)
    /\ [](start_calls >= 1 => world # None)
    /\ [][world # None =>
            (world' = world /\ Len(worlds') = Len(worlds))]_vars
    /\ []((start_calls >= 1 /\ op \in WorldOps) =>
            result # GameNotInitializedError)

C6_Witness ==
    /\ world # None
    /\ setup_called
    /\ entry_state = GuiStateRef
    /\ current_state = GuiStateRef
    /\ op = "player_state.set"
    /\ result = "ok"

\* C7 (as stated): a callback on a Core whose setup() was never called fails
\* with GameNotInitializedError, also after show_gui() or start_game().
C7_CallbackNeedsSetup ==
    (~setup_called /\ op \in Callbacks) => result = GameNotInitializedError

\* C7 (amended): a callback fails with GameNotInitializedError exactly when
\* neither show_gui() nor start_game() was called before it; whether setup()
\* was called makes no difference.
C7_CallbackNeedsSwitchOnly ==
    op \in Callbacks =>
        /\ result = GameNotInitializedError <=> (~shown /\ start_calls = 0)
        /\ result = "ok" <=> (shown \/ start_calls >= 1)

C7_Witness ==
    /\ ~setup_called
    /\ op = "on_draw"
    /\ result = "ok"
    /\ Len(Forwarded) = 1

\* C8 (as stated): every Core operation, in every state and for every
\* argument, succeeds or fails with GameNotInitializedError.
C8_SingleErrorKind ==
    result \in {"ok", GameNotInitializedError}

\* C8 (amended): every Core operation succeeds or fails with
\* GameNotInitializedError, except create_sprite called with the World present
\* and a spec_name that is no key of the game spec's sprites, which fails with
\* the lookup's KeyError.
C8_ErrorKinds ==
    /\ result \in {"ok", GameNotInitializedError, KeyError}
    /\ result = KeyError <=>
          /\ op = "create_sprite"
          /\ start_calls >= 1
          /\ args[1] \notin DOMAIN sprites

C8_Witness ==
    /\ op = "create_sprite"
    /\ world # None
    /\ args[1] \notin DOMAIN sprites
    /\ result = KeyError
    /\ calls = <<>>

\* The part of a game state each callback is forwarded to
PartOf(name) ==
    CASE name = "on_draw" -> "view"
      [] name = "on_update" -> "state"
      [] OTHER -> "controller"

\* C9 (as stated): a callback that finds current_state set makes exactly one
\* forwarded call, with its own arguments, on the view or the controller of
\* the state that was active, and on nothing else.
C9_ForwardToViewOrController ==
    (op \in Callbacks /\ result = "ok") =>
        /\ Len(Forwarded) = 1
        /\ Forwarded[1].obj = entry_state
        /\ Forwarded[1].part \in {"view", "controller"}
        /\ Forwarded[1].method = op
        /\ Forwarded[1].args = args

\* C9 (amended): a callback that finds current_state set makes exactly one
\* forwarded call, with its own arguments, on the state that was active:
\* on_draw on its view, the four input callbacks on the same-named method of
\* its controller, and on_update on the state's own on_update.
C9_ForwardToActiveState ==
    (op \in Callbacks /\ result = "ok") =>
        /\ entry_state # NoState
        /\ Len(Forwarded) = 1
        /\ Forwarded[1].obj = entry_state
        /\ Forwarded[1].part = PartOf(op)
        /\ Forwarded[1].method = op
        /\ Forwarded[1].args = args

C9_Witness ==
    /\ op = "on_update"
    /\ result = "ok"
    /\ entry_state = GuiStateRef
    /\ world # None
    /\ Len(Forwarded) = 1
    /\ Forwarded[1].part = "state"

\* C10: a start_game() call that finds world and ingame_state present changes
\* current_state only: world, ingame_state, the objects behind them (so no
\* second InGameState.setup()), the GUI state and its GUI stay as they were.
C10_SecondStartOnlySwitches ==
    [][((op' = "start_game" \/ handler' = <<"start_game">>)
          /\ world # None /\ ingame_state # None) =>
         /\ world' = world
         /\ ingame_state' = ingame_state
         /\ op' # "on_update" => worlds' = worlds
         /\ ingames' = ingames
         /\ gui_state' = gui_state
         /\ current_state' = InGameStateRef(ingame_state)]_vars

C10_Witness ==
    /\ op = "start_game"
    /\ start_calls >= 2
    /\ entry_state = GuiStateRef
    /\ gui_state.gui = "menu"
    /\ current_state = InGameStateRef(1)
    /\ ingames[1].setups = 1

----------------------------------------------------------------------------
\* The concrete GameState objects that exist: the GuiState that __init__
\* builds, and every InGameState built since
NumGameStates == 1 + Len(ingames)

\* C11 (as stated): in every reachable state exactly two concrete GameState
\* instances exist, before the first start_game() call as well as after it.
C11_TwoGameStates ==
    NumGameStates = 2

\* C11 (amended): exactly one GameState instance (the GUI state) exists until
\* the first start_game() call, and exactly two (the GUI state and the
\* in-game state) from that call on.
C11_OneThenTwoGameStates ==
    /\ start_calls = 0 => (NumGameStates = 1 /\ ingame_state = None)
    /\ start_calls >= 1 => (NumGameStates = 2 /\ ingame_state = 1)

C11_Witness ==
    /\ start_calls = 0
    /\ shown
    /\ op \in Callbacks
    /\ result = "ok"
    /\ NumGameStates = 1

----------------------------------------------------------------------------
\* C12: an on_update received while the GUI state is active is forwarded to
\* the GUI state only and leaves the World as it was; on_update changes the
\* World only while the in-game state is active, and then it does.
C12_WorldUpdatesOnlyInGame ==
    [][/\ (op' = "on_update" /\ current_state = GuiStateRef) =>
             /\ result' = "ok"
             /\ \A i \in 1..Len(calls') : calls'[i].obj = GuiStateRef
             /\ world # None => (world' = world /\ worlds' = worlds)
       /\ (op' = "on_update" /\ world # None /\ worlds' # worlds) =>
             current_state = InGameStateRef(ingame_state)
       /\ (op' = "on_update" /\ current_state.kind = "ingame_state") =>
             /\ world' = world
             /\ worlds'[world].ticks = worlds[world].ticks + args'[1]]_vars

C12_Witness ==
    /\ op = "on_update"
    /\ result = "ok"
    /\ entry_state = GuiStateRef
    /\ world # None
    /\ worlds[world].ticks >= 1
    /\ Len(calls) = 1

----------------------------------------------------------------------------
\* C13: run() calls setup(), then show_gui(initial_gui), then enters the event
\* loop; the first callback the loop delivers finds the GUI state active and
\* displaying initial_gui, and no callback delivered during run() fails with
\* GameNotInitializedError.
C13_RunShowsInitialGui ==
    /\ [](op = "run" =>
            /\ running
            /\ setup_called
            /\ Len(calls) = 3
            /\ calls[1].method = "setup"
            /\ calls[2].method = "set_gui"
            /\ calls[2].args = <<initial_gui>>
            /\ calls[3].obj = ArcadeRef
            /\ current_state = GuiStateRef
            /\ gui_state.gui = initial_gui)
    /\ [][op = "run" =>
            /\ op' \in Callbacks
            /\ entry_state' = GuiStateRef
            /\ result' = "ok"
            /\ Forwarded'[1].obj = GuiStateRef]_vars
    /\ []((running /\ op \in Callbacks) => result = "ok")

C13_Witness ==
    /\ running
    /\ op = "on_draw"
    /\ result = "ok"
    /\ start_calls = 0
    /\ entry_state = GuiStateRef
    /\ gui_state.gui = initial_gui

----------------------------------------------------------------------------
\* C14: an operation that fails with GameNotInitializedError has no effect:
\* world, ingame_state, current_state, the objects behind them and the GUI
\* state are as before the call, and it called nothing (no state, not the
\* World, and on_draw did not clear the window).
C14_FailedCallHasNoEffect ==
    [][result' = GameNotInitializedError =>
         /\ world' = world
         /\ worlds' = worlds
         /\ ingame_state' = ingame_state
         /\ ingames' = ingames
         /\ current_state' = current_state
         /\ gui_state' = gui_state
         /\ calls' = <<>>]_vars

C14_Witness ==
    /\ op = "on_draw"
    /\ result = GameNotInitializedError
    /\ setup_called
    /\ current_state = NoState
    /\ calls = <<>>

----------------------------------------------------------------------------
\* C15: current_state is None exactly until the first show_gui() or
\* start_game() that returns; no operation, setup() included, sets it back to
\* None; a callback succeeds whenever it finds current_state set, so after
\* one callback has succeeded every later one succeeds.
C15_CurrentStateStaysSet ==
    /\ [](current_state = NoState <=> last_switch = "none")
    /\ [][current_state # NoState => current_state' # NoState]_vars
    /\ [][(op' \in Callbacks /\ current_state # NoState) => result' = "ok"]_vars
    /\ []((op \in Callbacks /\ result = "ok") => current_state # NoState)

C15_Witness ==
    /\ op = "setup"
    /\ entry_state.kind = "ingame_state"
    /\ current_state = entry_state
    /\ shown

----------------------------------------------------------------------------
\* C16: when the handler reached through a forwarded callback calls
\* start_game() or show_gui(), that callback is still delivered once, to the
\* state that was active when it was dispatched; the switch is in effect when
\* the callback returns, and every callback goes to the state that is active
\* when it is dispatched, so the later ones go to the newly selected state.
C16_SwitchInsideCallback ==
    /\ []((op \in Callbacks /\ handler # <<"none">>) =>
            /\ result = "ok"
            /\ Len(Forwarded) = 1
            /\ Forwarded[1].obj = entry_state
            /\ current_state = IF handler[1] = "start_game"
                               THEN InGameStateRef(ingame_state)
                               ELSE GuiStateRef)
    /\ [][(op' \in Callbacks /\ result' = "ok") =>
            /\ Len(Forwarded') = 1
            /\ Forwarded'[1].obj = current_state]_vars

C16_Witness ==
    /\ op = "on_mouse_release"
    /\ handler = <<"start_game">>
    /\ entry_state = GuiStateRef
    /\ current_state = InGameStateRef(1)
    /\ Len(Forwarded) = 1
    /\ Forwarded[1].obj = GuiStateRef

----------------------------------------------------------------------------
\* C17: InGameState.setup() runs exactly once, in the start_game() call that
\* constructs the in-game state: whenever the in-game state is the active
\* state its setup() has completed, also when an earlier start_game() call was
\* aborted by an exception and start_game() was called again.
C17_ActiveInGameStateIsSetUp ==
    current_state.kind = "ingame_state" =>
        ingames[current_state.ref].setups = 1

----------------------------------------------------------------------------
----------------------------------------------------------------------------
\* C19: setup() leaves world, ingame_state, the objects behind them and
\* current_state as they were; show_gui() leaves world and ingame_state as
\* they were, so that a later start_game() makes the same in-game state,
\* bound to the same World, the active state again.
C19_SetupAndShowGuiKeepGame ==
    [][/\ op' = "setup" =>
             /\ world' = world
             /\ worlds' = worlds
             /\ ingame_state' = ingame_state
             /\ ingames' = ingames
             /\ current_state' = current_state
       /\ (op' \in {"show_gui", "run"} \/ handler'[1] = "show_gui") =>
             /\ world' = world
             /\ ingame_state' = ingame_state
             /\ ingames' = ingames
             /\ op' # "on_update" => worlds' = worlds
       /\ (op' = "start_game" /\ current_state = GuiStateRef
             /\ ingame_state # None) =>
             /\ current_state' = InGameStateRef(ingame_state)
             /\ ingames'[ingame_state].world = world
             /\ worlds' = worlds]_vars

C19_Witness ==
    /\ op = "setup"
    /\ entry_state.kind = "ingame_state"
    /\ current_state = entry_state
    /\ world # None
    /\ worlds[world].region = "cave"
    /\ worlds[world].ticks >= 1

====
